---- MODULE Spec2Model ----
(***************************************************************************)
(* Model of the TTS MCP servers of this repository: the SSE server         *)
(* (src/server.js), whose tool-call handler is shared verbatim with the    *)
(* stdio server, and the streamable-HTTP server (POST /mcp/v1/messages).   *)
(* All of them work on the same generated_audio directory.                 *)
(*                                                                         *)
(* Strings are sequences of characters; a character is a one-character     *)
(* string, or "U+XXXX" for a character outside ASCII.                      *)
(***************************************************************************)
EXTENDS Integers, Sequences, FiniteSets, TLC

\* ------------------------------------------------------------------ bounds
\* Requests (tool invocations and other messages) accepted in one run.
MaxCalls == 3
\* The clock runs over 0..MaxClock milliseconds.
MaxClock == 1
\* GET /sse stream-opens in one run.
MaxSessions == 2
\* The provider returns 1..MaxBytes bytes.
MaxBytes == 2

\* --------------------------------------------------------------- JS values
\* A JavaScript value: undefined, a number or a string.
JUndef == [t |-> "undefined", s |-> <<>>, n |-> 0]
JNum(k) == [t |-> "number", s |-> <<>>, n |-> k]
JStr(str) == [t |-> "string", s |-> str, n |-> 0]

\* !v
Falsy(v) ==
  \/ v.t = "undefined"
  \/ v.t = "number" /\ v.n = 0
  \/ v.t = "string" /\ v.s = <<>>

\* x = d in a destructuring pattern: the default replaces undefined only.
Default(v, d) == IF v.t = "undefined" THEN JStr(d) ELSE v

\* ------------------------------------------------------------------- text
Lower == {"a", "b", "c", "d", "e", "f", "g", "h", "i", "j", "k", "l", "m",
          "n", "o", "p", "q", "r", "s", "t", "u", "v", "w", "x", "y", "z"}
Upper == {"A", "B", "C", "D", "E", "F", "G", "H", "I", "J", "K", "L", "M",
          "N", "O", "P", "Q", "R", "S", "T", "U", "V", "W", "X", "Y", "Z"}
Digit == {"0", "1", "2", "3", "4", "5", "6", "7", "8", "9"}
\* Korean syllable blocks U+AC00..U+D7A3: the two ends and two from "안녕".
Hangul == {"U+AC00", "U+D7A3", "U+C548", "U+B155"}
\* White space removed by String.prototype.trim.
WhiteSpace == {" ", "\t", "\n"}

\* A bug: the class of the regular expression lacks the Korean syllables.
Kept_AsciiOnly(c) == c \in Lower \cup Upper \cup Digit

\* /[^a-zA-Z0-9가-힣]/ does not match c
Kept(c) == c \in Lower \cup Upper \cup Digit \cup Hangul

RECURSIVE trim(_)
trim(s) ==
  IF s = <<>> THEN s
  ELSE IF Head(s) \in WhiteSpace THEN trim(Tail(s))
  ELSE IF s[Len(s)] \in WhiteSpace THEN trim(SubSeq(s, 1, Len(s) - 1))
  ELSE s

\* s.substring(0, k)
substring(s, k) == SubSeq(s, 1, IF Len(s) < k THEN Len(s) ELSE k)

\* The decimal digits of k, padded with zeros to w places.
RECURSIVE pad(_, _)
pad(k, w) ==
  IF w = 0 THEN <<>>
  ELSE pad(k \div 10, w - 1) \o <<CHOOSE d \in Digit :
         d = <<"0", "1", "2", "3", "4", "5", "6", "7", "8", "9">>[(k % 10) + 1]>>

\* new Date().toISOString() at clock value ms (milliseconds since the epoch),
\* for clock values within the first day: 1970-01-01THH:MM:SS.mmmZ
toISOString(ms) ==
  <<"1", "9", "7", "0", "-", "0", "1", "-", "0", "1", "T">>
  \o pad(ms \div 3600000, 2) \o <<":">>
  \o pad((ms \div 60000) % 60, 2) \o <<":">>
  \o pad((ms \div 1000) % 60, 2) \o <<".">>
  \o pad(ms % 1000, 3) \o <<"Z">>

\* .replace(/[:.]/g, "-")
timestamp(ms) ==
  LET iso == toISOString(ms)
  IN  [i \in 1..Len(iso) |-> IF iso[i] \in {":", "."} THEN "-" ELSE iso[i]]

PreviewLen == 30

\* text.substring(0, 30).replace(/[^a-zA-Z0-9가-힣]/g, "_")
textPreview(text) ==
  LET pre == substring(text, PreviewLen)
  IN  [i \in 1..Len(pre) |-> IF Kept(pre[i]) THEN pre[i] ELSE "_"]

\* `tts_${timestamp}_${textPreview}.${format}`
filename(ms, text, format) ==
  <<"t", "t", "s", "_">> \o timestamp(ms) \o <<"_">> \o textPreview(text)
  \o <<".">> \o format

\* file.endsWith('.mp3') || ... '.opus' || ... '.aac' || ... '.flac'
AudioExt == {<<".", "m", "p", "3">>, <<".", "o", "p", "u", "s">>,
             <<".", "a", "a", "c">>, <<".", "f", "l", "a", "c">>}
endsWith(s, e) == Len(s) >= Len(e) /\ SubSeq(s, Len(s) - Len(e) + 1, Len(s)) = e
isAudioFile(file) == \E e \in AudioExt : endsWith(file, e)

\* ------------------------------------------------------------------ paths
\* A path is a sequence of segments below the file-system root.
projectRoot == << <<"a", "p", "p">> >>
audioDirName == <<"g", "e", "n", "e", "r", "a", "t", "e", "d", "_", "a", "u", "d", "i", "o">>
audioDir == Append(projectRoot, audioDirName)

\* The segments of s between "/" characters.
RECURSIVE split(_, _)
split(s, cur) ==
  IF s = <<>> THEN <<cur>>
  ELSE IF Head(s) = "/" THEN <<cur>> \o split(Tail(s), <<>>)
  ELSE split(Tail(s), Append(cur, Head(s)))

\* path.normalize over segments: "" and "." vanish, ".." removes a segment.
RECURSIVE normalize(_, _)
normalize(segs, acc) ==
  IF segs = <<>> THEN acc
  ELSE LET g == Head(segs)
       IN  IF g = <<>> \/ g = <<".">> THEN normalize(Tail(segs), acc)
           ELSE IF g = <<".", ".">>
             THEN normalize(Tail(segs),
                            IF acc = <<>> THEN acc ELSE SubSeq(acc, 1, Len(acc) - 1))
           ELSE normalize(Tail(segs), Append(acc, g))

\* path.join(dir, name)
pathJoin(dir, name) == normalize(dir \o split(name, <<>>), <<>>)

parent(p) == SubSeq(p, 1, Len(p) - 1)
basename(p) == p[Len(p)]

\* ------------------------------------------------------------------ state
VARIABLES
  now,           \* the clock, in milliseconds
  apiKey,        \* process.env.OPENAI_API_KEY is set
  dirs,          \* the directories of the file system
  files,         \* the regular files: path -> [size, birth]
  sseTransport,  \* server.js: the stored transport, 0 for null
  opened,        \* the number of SSEServerTransport objects created so far
  nextId,        \* the number of requests received so far
  providerCalls, \* the number of outbound calls made to the provider
  pending,       \* text_to_speech invocations awaiting the provider
  last,          \* the response most recently produced to a caller
  deleted,       \* history: the paths delete_audio_file removed, until rewritten
  sent           \* history: request id -> the number of responses produced for it

vars == <<now, apiKey, dirs, files, sseTransport, opened, nextId,
          providerCalls, pending, last, deleted, sent>>

\* ------------------------------------------------------------ file system
envFile == Append(projectRoot, <<".", "e", "n", "v">>)

\* fs.existsSync(p)
existsSync(p) == p \in dirs \/ p \in DOMAIN files

\* The error fs.writeFileSync(p, ...) throws, "" when it succeeds.
writeError(p) ==
  IF p \in dirs THEN "EISDIR"
  ELSE IF parent(p) \notin dirs THEN "ENOENT"
  ELSE ""

\* The files after a successful fs.writeFileSync(p, buffer) of n bytes: an
\* existing file is truncated and rewritten in place.
writeFileSync(p, n) ==
  (p :> [size |-> n,
         birth |-> IF p \in DOMAIN files THEN files[p].birth ELSE now]) @@ files

\* The error fs.unlinkSync(p) throws, "" when it succeeds.
unlinkError(p) ==
  IF p \in dirs THEN "EISDIR"
  ELSE IF p \notin DOMAIN files THEN "ENOENT"
  ELSE ""

\* The files after a successful fs.unlinkSync(p).
unlinkSync(p) == [q \in DOMAIN files \ {p} |-> files[q]]

\* The entries fs.readdirSync(d) enumerates.
readdirSync(d) ==
  {basename(p) : p \in {q \in DOMAIN files \cup dirs :
                          Len(q) = Len(d) + 1 /\ parent(q) = d}}

\* fs.statSync(p): size and birthtime.
statSync(p) ==
  IF p \in DOMAIN files THEN files[p] ELSE [size |-> 0, birth |-> 0]

\* The Audio Artifact store: the regular files directly in audioDir.
store == {p \in DOMAIN files : Len(p) = Len(audioDir) + 1 /\ parent(p) = audioDir}

\* The orders in which a directory's entries S may be enumerated.
Enumerations(S) ==
  {f \in [1..Cardinality(S) -> S] : \A i, j \in 1..Cardinality(S) : f[i] = f[j] => i = j}

\* ------------------------------------------------------- tool invocations
\* The arguments object of a tools/call request; present is FALSE when the
\* request carries no arguments object at all.
Args(text, format, fname) ==
  [present |-> TRUE, text |-> text, format |-> format, filename |-> fname]
NoArgs == [present |-> FALSE, text |-> JUndef, format |-> JUndef, filename |-> JUndef]

\* What a tool's code produces: a returned value, or a thrown error (msg names
\* the error's message).
Out0 == [thrown |-> FALSE, msg |-> "", kind |-> "", filename |-> <<>>,
         size |-> 0, listing |-> <<>>]
Throw(m) == [Out0 EXCEPT !.thrown = TRUE, !.msg = m]

\* A bug: the text is tested with !text alone, without the trim.
ttsCheck_NoTrim(args) ==
  IF ~args.present THEN "TypeError"
  ELSE IF Falsy(args.text) THEN "NoText"
  ELSE IF args.text.t # "string" THEN "TypeError"
  ELSE IF ~apiKey THEN "NoApiKey"
  ELSE ""

\* text_to_speech up to the outbound call: the error thrown, "" when none.
\* Destructuring an undefined arguments object and calling trim on a value
\* that is not a string throw a TypeError.
ttsCheck(args) ==
  IF ~args.present THEN "TypeError"
  ELSE IF Falsy(args.text) THEN "NoText"
  ELSE IF args.text.t # "string" THEN "TypeError"
  ELSE IF trim(args.text.s) = <<>> THEN "NoText"
  ELSE IF ~apiKey THEN "NoApiKey"
  ELSE ""

\* text_to_speech after the provider has answered with n bytes: the file
\* written and the value returned.
ttsPath(p) == pathJoin(audioDir, p.out.filename)
ttsFiles(p, n) ==
  IF writeError(ttsPath(p)) = "" THEN writeFileSync(ttsPath(p), n) ELSE files
ttsOut(p, n) ==
  IF writeError(ttsPath(p)) = ""
    THEN [Out0 EXCEPT !.kind = "tts_ok", !.filename = p.out.filename, !.size = n]
    ELSE Throw(writeError(ttsPath(p)))

\* A bug: the directory is read without testing that it exists.
listAudioFiles_NoDirCheck(order) ==
  IF ~existsSync(audioDir) THEN Throw("ENOENT")
  ELSE LET audioFiles == SelectSeq(order, isAudioFile)
       IN  IF Len(audioFiles) = 0 THEN [Out0 EXCEPT !.kind = "no_files"]
           ELSE [Out0 EXCEPT
                  !.kind = "listing",
                  !.listing = [i \in 1..Len(audioFiles) |->
                     [name |-> audioFiles[i],
                      size |-> statSync(pathJoin(audioDir, audioFiles[i])).size,
                      birth |-> statSync(pathJoin(audioDir, audioFiles[i])).birth]]]

\* list_audio_files, the directory being enumerated in the given order.
listAudioFiles(order) ==
  IF ~existsSync(audioDir) THEN [Out0 EXCEPT !.kind = "no_files"]
  ELSE LET audioFiles == SelectSeq(order, isAudioFile)
       IN  IF Len(audioFiles) = 0 THEN [Out0 EXCEPT !.kind = "no_files"]
           ELSE [Out0 EXCEPT
                  !.kind = "listing",
                  !.listing = [i \in 1..Len(audioFiles) |->
                     [name |-> audioFiles[i],
                      size |-> statSync(pathJoin(audioDir, audioFiles[i])).size,
                      birth |-> statSync(pathJoin(audioDir, audioFiles[i])).birth]]]

\* delete_audio_file: the error thrown, "" when none. path.join throws a
\* TypeError on an argument that is not a string.
deletePath(args) == pathJoin(audioDir, args.filename.s)
deleteError(args) ==
  IF ~args.present THEN "TypeError"
  ELSE IF Falsy(args.filename) THEN "NoFilename"
  ELSE IF args.filename.t # "string" THEN "TypeError"
  ELSE IF ~existsSync(deletePath(args)) THEN "NotFound"
  ELSE unlinkError(deletePath(args))
\* A bug: success is reported without the unlink.
deleteFiles_NoUnlink(args) == files
deleteFiles(args) ==
  IF deleteError(args) = "" THEN unlinkSync(deletePath(args)) ELSE files
deleteOut(args) ==
  IF deleteError(args) = ""
    THEN [Out0 EXCEPT !.kind = "deleted", !.filename = args.filename.s]
    ELSE Throw(deleteError(args))

\* -------------------------------------------------------------- responses
\* A response to a caller. envelope: "result" for {id, result}, "error" for
\* {id, error: {code, message}}, "text" for a plain-text HTTP body. escaped:
\* an exception left the tool-call handler.
Resp0 ==
  [id |-> 0, srv |-> "", method |-> "", tool |-> "", args |-> NoArgs,
   transport |-> 0, http |-> 0, envelope |-> "", code |-> 0,
   isError |-> FALSE, escaped |-> FALSE, calls |-> 0, out |-> Out0]

\* The tools each server registers.
Tools(srv) ==
  IF srv = "sse" THEN {"text_to_speech", "list_audio_files", "delete_audio_file"}
  ELSE {"text_to_speech", "list_audio_files"}

\* A bug: the arguments are destructured outside the try, so that a TypeError
\* leaves the handler.
sseResult_Rethrows(r, out) ==
  IF out.thrown /\ out.msg = "TypeError"
    THEN [r EXCEPT !.envelope = "error", !.http = 202, !.escaped = TRUE, !.out = out]
    ELSE [r EXCEPT !.envelope = "result", !.http = 202, !.isError = out.thrown, !.out = out]

\* server.js: the handler's try/catch turns every thrown error into a result
\* with isError set; the SDK sends what the handler returns as {id, result}.
sseResult(r, out) ==
  [r EXCEPT !.envelope = "result", !.http = 202, !.isError = out.thrown, !.out = out]

\* POST /mcp/v1/messages: a returned value is sent as {id, result}; a thrown
\* error reaches the route's catch and is sent as {id, error} with status 500.
httpResult(r, out) ==
  IF out.thrown
    THEN [r EXCEPT !.envelope = "error", !.http = 500, !.code = -32603, !.out = out]
    ELSE [r EXCEPT !.envelope = "result", !.http = 200, !.out = out]

Result(r, out) == IF r.srv = "sse" THEN sseResult(r, out) ELSE httpResult(r, out)

\* The response resp is produced: the handler returns it to the transport
\* (server.js), or res.json writes it (POST /mcp/v1/messages).
Reply(resp) ==
  /\ last' = resp
  /\ sent' = [sent EXCEPT ![resp.id] = @ + 1]

\* ----------------------------------------------------------------- inputs
Texts == {JUndef, JNum(5), JStr(<<" ">>), JStr(<<"a", ",">>)}
\* The format left out (the default applies) and one outside the schema's enum.
Formats == {JUndef, JStr(<<"w", "a", "v">>)}
\* Filenames asked to be deleted: none, one of no file, one outside the store,
\* the store itself and every file of the store.
DeleteNames ==
  {JUndef, JStr(<<"n", "o", ".", "m", "p", "3">>),
   JStr(<<".", ".", "/", ".", "e", "n", "v">>), JStr(<<".">>)}
  \cup {JStr(basename(p)) : p \in store}
\* The tools/call requests: a tool name and an arguments object. The format
\* varies where the text is one the handler accepts.
Call(tool, args) == [tool |-> tool, args |-> args]
Calls ==
  {Call(tool, NoArgs) :
     tool \in {"text_to_speech", "list_audio_files", "delete_audio_file", "no_such_tool"}}
  \cup {Call("text_to_speech", Args(t, f, JUndef)) :
          t \in {x \in Texts : x.t = "string" /\ trim(x.s) # <<>>}, f \in Formats}
  \cup {Call("text_to_speech", Args(t, JUndef, JUndef)) : t \in Texts}
  \cup {Call("delete_audio_file", Args(JUndef, JUndef, d)) : d \in DeleteNames}
\* The messages posted to /mcp/v1/messages: a method and, for tools/call with
\* params, a call; the method is "" when the envelope carries none.
Message(method, hasParams, c) == [method |-> method, hasParams |-> hasParams, call |-> c]
Messages ==
  {Message(m, FALSE, Call("", NoArgs)) :
     m \in {"initialize", "tools/list", "tools/call", "ping", ""}}
  \cup {Message("tools/call", TRUE, c) : c \in Calls}

\* ---------------------------------------------------------------- actions
Init ==
  /\ now = 0
  /\ apiKey \in BOOLEAN
  /\ dirs = {<<>>, projectRoot, audioDir}
  /\ files = (envFile :> [size |-> 1, birth |-> 0])
  /\ sseTransport = 0
  /\ opened = 0
  /\ nextId = 0
  /\ providerCalls = 0
  /\ pending = {}
  /\ last = Resp0
  /\ deleted = {}
  /\ sent = [i \in 1..MaxCalls |-> 0]

\* Time passes.
Tick ==
  /\ now < MaxClock
  /\ now' = now + 1
  /\ UNCHANGED <<apiKey, dirs, files, sseTransport, opened, nextId,
                 providerCalls, pending, last, deleted, sent>>

\* The generated_audio directory is removed from outside the server.
RemoveAudioDir ==
  /\ audioDir \in dirs
  /\ dirs' = dirs \ {audioDir}
  /\ files' = [q \in DOMAIN files \ store |-> files[q]]
  /\ UNCHANGED <<now, apiKey, sseTransport, opened, nextId, providerCalls,
                 pending, last, deleted, sent>>

\* A bug: a stream-open keeps the transport of a session that is active.
GetSse_KeepFirst ==
  /\ opened < MaxSessions
  /\ opened' = opened + 1
  /\ sseTransport' = IF sseTransport = 0 THEN opened + 1 ELSE sseTransport
  /\ UNCHANGED <<now, apiKey, dirs, files, nextId, providerCalls, pending, last,
                 deleted, sent>>

\* GET /sse: the new transport replaces the stored one.
GetSse ==
  /\ opened < MaxSessions
  /\ opened' = opened + 1
  /\ sseTransport' = opened + 1
  /\ UNCHANGED <<now, apiKey, dirs, files, nextId, providerCalls, pending, last,
                 deleted, sent>>

\* The tool-call handler up to its first await, for request r.
CallTool(r) ==
  CASE r.tool = "text_to_speech" /\ ttsCheck(r.args) = "" ->
         /\ pending' = pending \cup
              {[r EXCEPT !.calls = 1,
                         !.out.filename = filename(now, r.args.text.s,
                                                   Default(r.args.format, <<"m", "p", "3">>).s)]}
         /\ providerCalls' = providerCalls + 1
         /\ UNCHANGED <<files, last, deleted, sent>>
    [] r.tool = "text_to_speech" /\ ttsCheck(r.args) # "" ->
         /\ Reply(Result(r, Throw(ttsCheck(r.args))))
         /\ UNCHANGED <<files, pending, providerCalls, deleted>>
    [] r.tool = "list_audio_files" /\ r.tool \in Tools(r.srv) ->
         /\ \E order \in Enumerations(readdirSync(audioDir)) :
              Reply(Result(r, listAudioFiles(order)))
         /\ UNCHANGED <<files, pending, providerCalls, deleted>>
    [] r.tool = "delete_audio_file" /\ r.tool \in Tools(r.srv) ->
         /\ Reply(Result(r, deleteOut(r.args)))
         /\ files' = deleteFiles(r.args)
         /\ deleted' = IF deleteError(r.args) = ""
                          THEN deleted \cup {deletePath(r.args)} ELSE deleted
         /\ UNCHANGED <<pending, providerCalls>>
    [] OTHER ->
         /\ Reply(Result(r, Throw("UnknownTool")))
         /\ UNCHANGED <<files, pending, providerCalls, deleted>>

\* A bug: the request is passed on without a stored transport.
Connected_Always == TRUE

\* The session is connected: a transport is stored.
Connected == sseTransport # 0

\* POST /messages carrying a tools/call request.
PostMessages(c) ==
  LET r == [Resp0 EXCEPT !.id = nextId + 1, !.srv = "sse", !.method = "tools/call",
                         !.tool = c.tool, !.args = c.args, !.transport = sseTransport]
  IN  /\ nextId < MaxCalls
      /\ nextId' = nextId + 1
      /\ IF ~Connected
           THEN /\ Reply([r EXCEPT !.http = 500, !.envelope = "text"])
                /\ UNCHANGED <<files, pending, providerCalls, deleted>>
           ELSE CallTool(r)
      /\ UNCHANGED <<now, apiKey, dirs, sseTransport, opened>>

\* POST /mcp/v1/messages.
PostMcpMessages(message) ==
  LET method == message.method
      hasParams == message.hasParams
      m == [Resp0 EXCEPT !.id = nextId + 1, !.srv = "http", !.method = method]
      r == [m EXCEPT !.tool = message.call.tool, !.args = message.call.args]
  IN  /\ nextId < MaxCalls
      /\ nextId' = nextId + 1
      /\ CASE method = "initialize" ->
                /\ Reply([m EXCEPT !.http = 200, !.envelope = "result",
                                     !.out.kind = "initialize"])
                /\ UNCHANGED <<files, pending, providerCalls, deleted>>
           [] method = "tools/list" ->
                /\ Reply([m EXCEPT !.http = 200, !.envelope = "result",
                                     !.out.kind = "tools"])
                /\ UNCHANGED <<files, pending, providerCalls, deleted>>
           [] method = "tools/call" /\ ~hasParams ->
                /\ Reply(httpResult(m, Throw("TypeError")))
                /\ UNCHANGED <<files, pending, providerCalls, deleted>>
           [] method = "tools/call" /\ hasParams -> CallTool(r)
           [] OTHER ->
                /\ Reply([m EXCEPT !.http = 200, !.envelope = "error", !.code = -32601])
                /\ UNCHANGED <<files, pending, providerCalls, deleted>>
      /\ UNCHANGED <<now, apiKey, dirs, sseTransport, opened>>

\* The provider answers the outbound call of p with n bytes.
ProviderReturns(p, n) ==
  /\ pending' = pending \ {p}
  /\ files' = ttsFiles(p, n)
  /\ Reply(Result(p, ttsOut(p, n)))
  /\ deleted' = IF writeError(ttsPath(p)) = "" THEN deleted \ {ttsPath(p)} ELSE deleted
  /\ UNCHANGED <<now, apiKey, dirs, sseTransport, opened, nextId, providerCalls>>

\* A bug: the file is created before the outbound call is awaited, and is
\* left empty when the call fails.
ProviderFails_LeavesFile(p) ==
  /\ pending' = pending \ {p}
  /\ files' = IF writeError(ttsPath(p)) = "" THEN writeFileSync(ttsPath(p), 0) ELSE files
  /\ Reply(Result(p, Throw("Upstream")))
  /\ UNCHANGED <<now, apiKey, dirs, sseTransport, opened, nextId,
                 providerCalls, deleted>>

\* A bug: the rejection of the outbound call is swallowed, and the invocation
\* ends without a response.
ProviderFails_Swallowed(p) ==
  /\ pending' = pending \ {p}
  /\ UNCHANGED <<now, apiKey, dirs, files, sseTransport, opened, nextId,
                 providerCalls, last, deleted, sent>>

\* The outbound call of p fails: an error status, a network error, a timeout.
ProviderFails(p) ==
  /\ pending' = pending \ {p}
  /\ Reply(Result(p, Throw("Upstream")))
  /\ UNCHANGED <<now, apiKey, dirs, files, sseTransport, opened, nextId,
                 providerCalls, deleted>>

\* The first GET /sse: the one client of the server connects.
Connect == opened = 0 /\ GetSse

\* The calls posted while stream-opens replace the session: one of each tool.
SessionCalls ==
  {Call(tool, NoArgs) : tool \in {"list_audio_files", "delete_audio_file", "no_such_tool"}}
  \cup {Call("text_to_speech", Args(JStr(<<"a", ",">>), JUndef, JUndef))}

\* The servers with one client, which connects once.
Next ==
  \/ Tick
  \/ RemoveAudioDir
  \/ Connect
  \/ \E c \in Calls : PostMessages(c)
  \/ \E message \in Messages : PostMcpMessages(message)
  \/ \E p \in pending : \E n \in 1..MaxBytes : ProviderReturns(p, n)
  \/ \E p \in pending : ProviderFails(p)

Spec == Init /\ [][Next]_vars

\* The SSE server with clients that open a stream again and again.
NextSession ==
  \/ GetSse
  \/ \E c \in SessionCalls : PostMessages(c)
  \/ \E p \in pending : \E n \in 1..MaxBytes : ProviderReturns(p, n)
  \/ \E p \in pending : ProviderFails(p)

SpecSession == Init /\ [][NextSession]_vars

\* Texts for the filename: "안녕, world!"; 36 characters, cut after the 30th;
\* exactly 30 characters, the last four outside the classes kept; the two
\* ends of the Korean syllable blocks with two characters outside them.
NameTexts ==
  {<<"U+C548", "U+B155", ",", " ", "w", "o", "r", "l", "d", "!">>,
   <<"A", "B", "C", "D", "E", "F", "G", "H", "I", "J", "K", "L", "M", "N", "O", "P",
     "Q", "R", "S", "T", "U", "V", "W", "X", "Y", "Z", "0", "1", "2", "3", "4", "5",
     "6", "7", "8", "9">>,
   <<"a", "b", "c", "d", "e", "f", "g", "h", "i", "j", "k", "l", "m", "n", "o", "p",
     "q", "r", "s", "t", "u", "v", "w", "x", "y", "z", ":", ".", "-", "_">>,
   <<"U+AC00", "U+D7A3", "U+3131", "U+00E9", "x">>}
\* text_to_speech calls with these texts, in the default format; in opus too
\* for the first.
NameCalls ==
  {Call("text_to_speech", Args(JStr(t), JUndef, JUndef)) : t \in NameTexts}
  \cup {Call("text_to_speech",
              Args(JStr(<<"U+C548", "U+B155", ",", " ", "w", "o", "r", "l", "d", "!">>),
                   JStr(<<"o", "p", "u", "s">>), JUndef))}

\* text_to_speech on both servers with the texts above, at several times; the
\* outbound calls fail.
NextNames ==
  \/ Tick
  \/ Connect
  \/ \E c \in NameCalls : PostMessages(c)
  \/ \E c \in NameCalls : PostMcpMessages(Message("tools/call", TRUE, c))
  \/ \E p \in pending : ProviderFails(p)

SpecNames == Init /\ [][NextNames]_vars

\* The messages posted to /mcp/v1/messages while sessions are replaced: every
\* method, and one call of each tool.
LiveMessages ==
  {Message(m, FALSE, Call("", NoArgs)) :
     m \in {"initialize", "tools/list", "tools/call", "ping", ""}}
  \cup {Message("tools/call", TRUE, c) : c \in SessionCalls}

\* The outbound call of some invocation times out. axios is given timeout:
\* 30000, so a call that has not returned after 30 seconds is rejected.
TimesOut == \E p \in pending : ProviderFails(p)

\* Both servers, with stream-opens that replace the session, and every
\* outbound call that does not return timing out.
NextLive ==
  \/ GetSse
  \/ \E c \in SessionCalls : PostMessages(c)
  \/ \E message \in LiveMessages : PostMcpMessages(message)
  \/ \E p \in pending : \E n \in 1..MaxBytes : ProviderReturns(p, n)
  \/ \E p \in pending : ProviderFails(p)

SpecLive == Init /\ [][NextLive]_vars /\ WF_vars(TimesOut)

\* ----------------------------------------------------------------- claims
\* Response r answers a tools/call request that reached a tool-call handler.
Dispatched(r) ==
  /\ r.method = "tools/call"
  /\ r.tool # ""
  /\ r.srv = "sse" => r.transport # 0

\* A step in which a response is produced.
Responds == last'.id # last.id

\* v is no text: it is missing, empty or made of white space only.
BlankText(v) ==
  \/ v.t = "undefined"
  \/ v.t = "string" /\ \A i \in 1..Len(v.s) : v.s[i] \in WhiteSpace

\* C1: whatever the capability name and the arguments, and whether or not the
\* provider call and the file-system calls succeed, the SSE/stdio tool-call
\* handler answers with a result and lets no exception escape: whenever the
\* tool's code throws, the result carries isError and the error's message; a
\* call without an arguments object, a text that is no string and a name that
\* is not registered are answered so, the last as an unknown tool.
C1_HandlerNeverThrows ==
  (last.srv = "sse" /\ Dispatched(last)) =>
    /\ ~last.escaped
    /\ last.envelope = "result"
    /\ last.out.thrown => (last.isError /\ last.out.msg # "")
    /\ ~last.out.thrown => (~last.isError /\ last.out.kind # "")
    /\ last.tool \notin Tools("sse") => (last.isError /\ last.out.msg = "UnknownTool")
    /\ (last.tool \in {"text_to_speech", "delete_audio_file"} /\ ~last.args.present)
         => last.isError
    /\ (last.tool = "text_to_speech" /\ last.args.text.t = "number") => last.isError

\* C1's case: the file-system call of a text_to_speech invocation failed (the
\* store directory had gone) and the handler answered with an error result.
C1_Witness ==
  /\ last.srv = "sse"
  /\ last.tool = "text_to_speech"
  /\ last.calls = 1
  /\ last.isError
  /\ last.out.msg = "ENOENT"

\* C2: a text_to_speech invocation whose text is missing, empty or white
\* space only, or that is made while OPENAI_API_KEY is unset, is answered with
\* an error, has made no outbound call and has written no file; no such
\* invocation ever awaits the provider, and the step answering it changes no
\* file and makes no outbound call.
C2_Rejected(r) ==
  /\ Dispatched(r)
  /\ r.tool = "text_to_speech"
  /\ ~r.args.present \/ BlankText(r.args.text) \/ ~apiKey
C2_ChecksBeforeOutboundCall ==
  /\ [](\A p \in pending : ~C2_Rejected(p))
  /\ [](C2_Rejected(last) =>
          /\ last.isError \/ last.envelope = "error"
          /\ last.out.thrown
          /\ last.calls = 0
          /\ last.out.kind # "tts_ok")
  /\ [][(Responds /\ C2_Rejected(last')) =>
          (files' = files /\ providerCalls' = providerCalls /\ pending' = pending)]_vars

\* C2's case: a white-space-only text was rejected while the key is set.
C2_Witness ==
  /\ C2_Rejected(last)
  /\ apiKey
  /\ last.args.present
  /\ last.args.text = JStr(<<" ">>)
  /\ last.out.msg = "NoText"

\* A step in which a text_to_speech invocation completes successfully.
Synthesized == Responds /\ last'.out.kind = "tts_ok"

\* C3 (as claimed): every text_to_speech invocation that completes
\* successfully adds exactly one file to the store, one that was not there
\* before, and the size stored for it is the number of bytes the provider
\* returned.
C3_ExactlyOneNewArtifact ==
  [][Synthesized =>
       /\ Cardinality(store') = Cardinality(store) + 1
       /\ \E f \in store' \ store : files'[f].size = last'.out.size]_vars

\* C4 (as claimed): the filename given to a successful text_to_speech
\* invocation is that of no existing file, so that no file is overwritten or
\* changed by a later invocation.
C4_FilenamesUnique ==
  [][Synthesized =>
       /\ pathJoin(audioDir, last'.out.filename) \notin DOMAIN files
       /\ \A f \in DOMAIN files : f \in DOMAIN files' /\ files'[f] = files[f]]_vars

\* A step answering a delete_audio_file invocation of the SSE/stdio handler.
Deletes ==
  Responds /\ last'.srv = "sse" /\ Dispatched(last') /\ last'.tool = "delete_audio_file"

\* C5: deleting a file that text_to_speech has stored (every file of the store
\* is one) succeeds and removes it; a file deleted and not synthesized again
\* stays absent, and no list_audio_files made meanwhile includes it.
C5_DeleteThenList ==
  /\ [][(/\ Deletes
         /\ last'.args.present
         /\ last'.args.filename.t = "string"
         /\ \E f \in store : basename(f) = last'.args.filename.s)
        => /\ ~last'.isError
           /\ last'.out.kind = "deleted"
           /\ pathJoin(audioDir, last'.args.filename.s) \notin DOMAIN files'
           /\ pathJoin(audioDir, last'.args.filename.s) \in deleted']_vars
  /\ [](\A f \in deleted : f \notin DOMAIN files)
  /\ [][\A f \in deleted \ deleted' :
          Synthesized /\ pathJoin(audioDir, last'.out.filename) = f]_vars
  /\ [][(Responds /\ Dispatched(last') /\ last'.tool = "list_audio_files")
        => \A i \in 1..Len(last'.out.listing) :
             pathJoin(audioDir, last'.out.listing[i].name) \notin deleted]_vars

\* C5's case: a synthesized file was deleted, and list_audio_files was invoked
\* after that (the third of three requests) while it was still deleted.
C5_Witness ==
  /\ last.tool = "list_audio_files"
  /\ Dispatched(last)
  /\ last.id = 3
  /\ \E f \in deleted : parent(f) = audioDir /\ isAudioFile(basename(f))

\* C6 (as claimed): delete_audio_file with a filename that names no file of
\* the store, or with no filename, is answered with an error result and
\* changes no file.
C6_DeleteMissingChangesNothing ==
  [][(/\ Deletes
      /\ \/ ~last'.args.present
         \/ last'.args.filename.t = "undefined"
         \/ /\ last'.args.filename.t = "string"
            /\ \A f \in store : basename(f) # last'.args.filename.s)
     => (last'.isError /\ files' = files)]_vars

\* The audio files of the store: those with one of the four extensions.
AudioStore == {f \in store : \E e \in AudioExt : endsWith(basename(f), e)}

\* C7: list_audio_files never fails, on either server. Its answer is the "no
\* files" message when the store directory is absent or holds no file with an
\* audio extension, and else a listing of exactly the files with an audio
\* extension, each once, with its size and creation time.
C7_ListNeverFails ==
  [][(Responds /\ Dispatched(last') /\ last'.tool = "list_audio_files")
     => /\ ~last'.isError
        /\ ~last'.out.thrown
        /\ last'.envelope = "result"
        /\ IF audioDir \notin dirs \/ AudioStore = {}
             THEN last'.out.kind = "no_files" /\ last'.out.listing = <<>>
             ELSE /\ last'.out.kind = "listing"
                  /\ Len(last'.out.listing) = Cardinality(AudioStore)
                  /\ {pathJoin(audioDir, last'.out.listing[i].name) :
                        i \in 1..Len(last'.out.listing)} = AudioStore
                  /\ \A i \in 1..Len(last'.out.listing) :
                       LET e == last'.out.listing[i]
                       IN  /\ e.size = files[pathJoin(audioDir, e.name)].size
                           /\ e.birth = files[pathJoin(audioDir, e.name)].birth]_vars

\* C7's case: the store holds an audio file and a file that is none, and the
\* listing holds the audio file alone.
C7_Witness ==
  /\ last.tool = "list_audio_files"
  /\ last.out.kind = "listing"
  /\ Len(last.out.listing) = 1
  /\ Cardinality(store) = 2
  /\ Cardinality(AudioStore) = 1

\* The requests the SSE server has received and passed to a transport: the one
\* answered last, and those awaiting the provider.
Handled == {r \in pending \cup {last} : r.srv = "sse" /\ r.transport # 0}

\* C8: one transport reference is kept, the one opened last; a request posted
\* to /messages is handled by the transport opened last before it, so that
\* none posted after a second stream-open is handled by the replaced one.
C8_RoutesToNewestSession ==
  /\ [](sseTransport = opened)
  /\ [][\A r \in Handled' : r.id = nextId' /\ nextId' # nextId => r.transport = opened]_vars

\* C8's case: after a second stream-open, a request was answered, handled by
\* the second transport.
C8_Witness ==
  /\ opened = 2
  /\ last.srv = "sse"
  /\ last.transport = 2
  /\ last.envelope = "result"

\* C9: a request posted to /messages before any stream was opened is answered
\* with HTTP status 500 and never reaches the tool-call handler: no tool ran
\* for it, no outbound call was made and none awaits the provider.
C9_DisconnectedIsRejected ==
  /\ \A p \in pending : p.srv = "sse" => p.transport # 0
  /\ (last.srv = "sse" /\ last.transport = 0) =>
       /\ last.http = 500
       /\ last.envelope = "text"
       /\ last.out = Out0
       /\ last.calls = 0
       /\ ~last.isError

\* C9's case: a text_to_speech request with a valid text was posted before any
\* stream was opened, and was answered.
C9_Witness ==
  /\ last.srv = "sse"
  /\ last.transport = 0
  /\ last.http = 500
  /\ last.tool = "text_to_speech"
  /\ ~BlankText(last.args.text)
  /\ opened = 0

\* C10 (as claimed): a request that fails before reaching a tool (an unknown
\* method, an envelope with no method or no params, no active session) is
\* answered with the error object, an unknown method with code -32601; a tool
\* that fails is answered with a result flagged as an error.
C10_DistinctEnvelopes ==
  /\ (last.id # 0 /\ ~Dispatched(last) /\ last.method \notin {"initialize", "tools/list"})
       => last.envelope = "error"
  /\ (last.srv = "http" /\ last.method \notin {"initialize", "tools/list", "tools/call"})
       => last.code = -32601
  /\ (Dispatched(last) /\ last.out.thrown) => (last.envelope = "result" /\ last.isError)

\* The ids of the invocations awaiting the provider.
InFlight == {p.id : p \in pending}

C12_FilenameDerivation ==
  [][\A p \in pending' \ pending :
       LET text == p.args.text.s
           format == IF p.args.format.t = "undefined"
                       THEN <<"m", "p", "3">> ELSE p.args.format.s
           name == p.out.filename
           n == IF Len(text) < 30 THEN Len(text) ELSE 30
           iso == toISOString(now)
       IN  /\ Len(iso) = 24
           /\ Len(name) = 4 + 24 + 1 + n + 1 + Len(format)
           /\ SubSeq(name, 1, 4) = <<"t", "t", "s", "_">>
           /\ \A i \in 1..24 :
                name[4 + i] = IF iso[i] \in {":", "."} THEN "-" ELSE iso[i]
           /\ name[29] = "_"
           /\ \A i \in 1..n :
                name[29 + i] = IF text[i] \in Lower \cup Upper \cup Digit \cup Hangul
                                 THEN text[i] ELSE "_"
           /\ name[30 + n] = "."
           /\ SubSeq(name, 31 + n, Len(name)) = format]_vars

\* C12's case: "안녕, world!" was given at clock value 1 and the invocation
\* awaits the provider under the name tts_1970-01-01T00-00-00-001Z_안녕__world_.mp3
C12_Witness ==
  \E p \in pending :
    /\ p.args.text.s = <<"U+C548", "U+B155", ",", " ", "w", "o", "r", "l", "d", "!">>
    /\ p.out.filename =
         <<"t", "t", "s", "_", "1", "9", "7", "0", "-", "0", "1", "-", "0", "1", "T",
           "0", "0", "-", "0", "0", "-", "0", "0", "-", "0", "0", "1", "Z", "_",
           "U+C548", "U+B155", "_", "_", "w", "o", "r", "l", "d", "_",
           ".", "m", "p", "3">>

\* The characters of the filenames in the order of their code units.
CodeUnits ==
  <<"-", ".", "0", "1", "2", "3", "4", "5", "6", "7", "8", "9",
    "A", "B", "C", "D", "E", "F", "G", "H", "I", "J", "K", "L", "M",
    "N", "O", "P", "Q", "R", "S", "T", "U", "V", "W", "X", "Y", "Z", "_",
    "a", "b", "c", "d", "e", "f", "g", "h", "i", "j", "k", "l", "m",
    "n", "o", "p", "q", "r", "s", "t", "u", "v", "w", "x", "y", "z">>
CodeUnit(c) == CHOOSE i \in 1..Len(CodeUnits) : CodeUnits[i] = c

\* Filename a comes before filename b, or is b.
RECURSIVE Precedes(_, _)
Precedes(a, b) ==
  IF a = <<>> THEN TRUE
  ELSE IF b = <<>> THEN FALSE
  ELSE IF Head(a) = Head(b) THEN Precedes(Tail(a), Tail(b))
  ELSE CodeUnit(Head(a)) < CodeUnit(Head(b))

\* C13 (as claimed): the entries of every listing list_audio_files returns
\* are in the order of their filenames, whatever the order in which the
\* directory is enumerated.
C13_ListingSorted ==
  [][(Responds /\ Dispatched(last') /\ last'.out.kind = "listing")
     => \A i \in 1..Len(last'.out.listing) : \A j \in i..Len(last'.out.listing) :
          Precedes(last'.out.listing[i].name, last'.out.listing[j].name)]_vars

\* C14 (as claimed): every text_to_speech invocation that reaches the provider
\* carries a text that is not blank and a format that, the default mp3 taken
\* for one left out, is one of mp3, opus, aac and flac. (Of the arguments the
\* claim names, these are the two that the state of the servers depends on.)
C14_ValidatedRequests ==
  \A p \in pending :
    /\ p.args.text.t = "string"
    /\ ~BlankText(p.args.text)
    /\ (IF p.args.format.t = "undefined" THEN <<"m", "p", "3">> ELSE p.args.format.s)
         \in {<<"m", "p", "3">>, <<"o", "p", "u", "s">>, <<"a", "a", "c">>,
              <<"f", "l", "a", "c">>}

\* C15: a text_to_speech invocation that fails at the provider step or before
\* it (no arguments, a blank text or one that is no string, no key, a provider
\* error or timeout) changes no file; none is written when the outbound call
\* is made, and a step that creates or changes a file is the successful
\* completion of an invocation whose provider call has returned.
C15_FailedSynthesisWritesNothing ==
  /\ [][(/\ Responds
          /\ Dispatched(last')
          /\ last'.tool = "text_to_speech"
          /\ last'.out.thrown
          /\ (last'.calls = 0 \/ last'.out.msg = "Upstream"))
         => files' = files]_vars
  /\ [][pending' \ pending # {} => files' = files]_vars
  /\ [][(\E f \in DOMAIN files' : f \notin DOMAIN files \/ files'[f] # files[f])
         => (Synthesized /\ last' \in {Result(p, last'.out) : p \in pending \ pending'})]_vars

\* C15's case: the provider call of an invocation failed while the store held
\* a file written earlier, and the store holds that file alone.
C15_Witness ==
  /\ last.tool = "text_to_speech"
  /\ last.calls = 1
  /\ last.out.msg = "Upstream"
  /\ Cardinality(store) = 1
  /\ pathJoin(audioDir, last.out.filename) \notin store

\* C16 (as claimed): whatever the filename given to delete_audio_file and the
\* format given to text_to_speech, every file a step creates, rewrites or
\* removes is a direct entry of the generated_audio directory.
C16_OnlyInsideStore ==
  [][\A f \in DOMAIN files \cup DOMAIN files' :
       (f \notin DOMAIN files \/ f \notin DOMAIN files' \/ files'[f] # files[f])
         => parent(f) = audioDir]_vars

====
